---------------------------- MODULE Spec2Model ----------------------------
(* A model of loolwsd/Util.cpp: the termination and fatal signal handlers, *)
(* the mutex-guarded random generator, the Base64 random strings and the   *)
(* process-unique identifiers.                                             *)
EXTENDS Integers, Sequences, FiniteSets, TLC

(***************************************************************************)
(* Bounds of the model.                                                    *)
(***************************************************************************)
NumThreads == 2
MaxDeliveries == 3
MaxFaults == 2
GenMod == 3
MaxLen == 5
MaxOverread == 2
MaxCalls == 7
MaxSigno == 64
\* const int maxSlots = 50: the capacity of backtraceBuffer
maxSlots == 50

(***************************************************************************)
(* Signal numbers (Linux <signal.h>), as used by signalName's switch.      *)
(***************************************************************************)
SIGHUP == 1
SIGINT == 2
SIGQUIT == 3
SIGILL == 4
SIGTRAP == 5
SIGABRT == 6
SIGBUS == 7
SIGFPE == 8
SIGKILL == 9
SIGUSR1 == 10
SIGSEGV == 11
SIGUSR2 == 12
SIGPIPE == 13
SIGALRM == 14
SIGTERM == 15
SIGSTKFLT == 16
SIGCHLD == 17
SIGCONT == 18
SIGSTOP == 19
SIGTSTP == 20
SIGTTIN == 21
SIGTTOU == 22
SIGURG == 23
SIGXCPU == 24
SIGXFSZ == 25
SIGVTALRM == 26
SIGPROF == 27
SIGWINCH == 28
SIGPOLL == 29
SIGPWR == 30
SIGSYS == 31

TermSignals == {SIGTERM, SIGINT, SIGQUIT, SIGHUP}
FatalSignals == {SIGSEGV, SIGBUS, SIGABRT, SIGILL, SIGFPE}

Threads == 1..NumThreads
MainThread == 1
GenStates == 0..(GenMod - 1)
IdleThread == [pc |-> "idle", loaded |-> 0, ret |-> 0]
DefaultPid == 4242

VARIABLES
    TerminationFlag,  \* volatile bool TerminationFlag
    disp,             \* disposition of every signal (sigaction)
    setupPc,          \* how far the main thread is in the set*Signals() call
    stack,            \* per thread: the handler frames running on it, innermost last
    proc,             \* "running", or "terminated" by a default action
    killedBy,         \* the signal whose default action ended the process (0: none)
    stderrOut,        \* the fragments written to standard error, in order
    deliveries,       \* the signals for which a custom handler was entered, in order
    pending,          \* signals sent to the process (kill) and not yet delivered
    FatalGdbString,   \* static char FatalGdbString[256]: "empty", "partial" or "full"
    loolDebug,        \* the environment's LOOL_DEBUG: "unset", "empty" or "value"
    faults,           \* how many fatal signals have been generated so far
    rngMutex,         \* rng::_rngMutex: the thread holding it, 0 when free
    rngState,         \* rng::_rng: the generator's state
    thr,              \* per thread: where its own (non-handler) code stands
    pid,              \* Poco::Process::id() / getpid()
    counter,          \* UniqueId's static std::atomic_int counter
    ids,              \* the strings UniqueId returned, in the order of the calls
    idThr,            \* per thread: where its call of UniqueId stands, and its counter++
    sPc,              \* where the one caller of getFilename / createRandomDir stands
    sLen,             \* the length asked for
    sVec,             \* getBytes' vector, as read from the device
    sMem,             \* the bytes that follow the vector in memory, up to a '\0'
    sStream,          \* the characters in the std::stringstream ss
    sStr,             \* the std::string s of getFilename
    sRet,             \* the string returned
    nPc,              \* where the one caller of signalName stands
    nArg,             \* signalName's argument signo
    nRet,             \* the string signalName returned
    heapLock          \* the allocator's lock (malloc/free): the thread inside, 0 when free

sigVars == <<TerminationFlag, disp, setupPc, stack, proc, killedBy, stderrOut, deliveries>>
fatalVars == <<pending, FatalGdbString, loolDebug, faults>>
rngVars == <<rngMutex, rngState, thr>>
idVars == <<pid, counter, ids, idThr>>
strVars == <<sPc, sLen, sVec, sMem, sStream, sStr, sRet>>
nameVars == <<nPc, nArg, nRet>>
heapVars == <<heapLock>>

vars == <<sigVars, fatalVars, rngVars, idVars, strVars, nameVars, heapVars>>

(***************************************************************************)
(* signalName: the switch of CASE(x) lines; "unknown" by default.          *)
(***************************************************************************)
signalNameMutantOnlyHup(signo) == IF signo = SIGHUP THEN "SIGHUP" ELSE "unknown"
signalName(signo) ==
    CASE signo = SIGHUP -> "SIGHUP"
      [] signo = SIGINT -> "SIGINT"
      [] signo = SIGQUIT -> "SIGQUIT"
      [] signo = SIGILL -> "SIGILL"
      [] signo = SIGABRT -> "SIGABRT"
      [] signo = SIGFPE -> "SIGFPE"
      [] signo = SIGKILL -> "SIGKILL"
      [] signo = SIGSEGV -> "SIGSEGV"
      [] signo = SIGPIPE -> "SIGPIPE"
      [] signo = SIGALRM -> "SIGALRM"
      [] signo = SIGTERM -> "SIGTERM"
      [] signo = SIGUSR1 -> "SIGUSR1"
      [] signo = SIGUSR2 -> "SIGUSR2"
      [] signo = SIGCHLD -> "SIGCHLD"
      [] signo = SIGCONT -> "SIGCONT"
      [] signo = SIGSTOP -> "SIGSTOP"
      [] signo = SIGTSTP -> "SIGTSTP"
      [] signo = SIGTTIN -> "SIGTTIN"
      [] signo = SIGTTOU -> "SIGTTOU"
      [] signo = SIGBUS -> "SIGBUS"
      [] signo = SIGPOLL -> "SIGPOLL"
      [] signo = SIGPROF -> "SIGPROF"
      [] signo = SIGSYS -> "SIGSYS"
      [] signo = SIGTRAP -> "SIGTRAP"
      [] signo = SIGURG -> "SIGURG"
      [] signo = SIGVTALRM -> "SIGVTALRM"
      [] signo = SIGXCPU -> "SIGXCPU"
      [] signo = SIGXFSZ -> "SIGXFSZ"
      [] signo = SIGSTKFLT -> "SIGSTKFLT"
      [] signo = SIGPWR -> "SIGPWR"
      [] signo = SIGWINCH -> "SIGWINCH"
      [] OTHER -> "unknown"

\* a caller passes a signal number and takes the name returned
signalName_call(signo) ==
    /\ nPc # "called"
    /\ nPc' = "called"
    /\ nArg' = signo
    /\ nRet' = ""
    /\ UNCHANGED <<sigVars, fatalVars, rngVars, idVars, strVars, heapVars>>

signalName_return ==
    /\ nPc = "called"
    /\ nPc' = "returned"
    /\ nRet' = signalName(nArg)
    /\ UNCHANGED <<nArg, sigVars, fatalVars, rngVars, idVars, strVars, heapVars>>

InitName ==
    /\ nPc = "idle"
    /\ nArg = 0
    /\ nRet = ""

(***************************************************************************)
(* Log::signalLogPrefix / Log::signalLog: one write of one fragment to     *)
(* standard error.                                                         *)
(***************************************************************************)
(* A string is its text and, where a number was formatted into it (%d,     *)
(* operator <<), that number.                                              *)
Str(text) == [text |-> text, arg |-> 0]
Fmt(text, number) == [text |-> text, arg |-> number]
LogPrefix == Str("<prefix>")
signalLog(out, message) == Append(out, message)

(***************************************************************************)
(* Handler frames.  While the handler of a signal runs on a thread, that   *)
(* signal is blocked on the thread (sa_flags = 0, so no SA_NODEFER); the   *)
(* empty sa_mask blocks nothing else.                                      *)
(***************************************************************************)
Top(t) == stack[t][Len(stack[t])]
Blocked(t) == {stack[t][i].sig : i \in 1..Len(stack[t])}
Running(t) == proc = "running" /\ stack[t] # <<>>
InHandler(t, kind, pc) == Running(t) /\ Top(t).h = kind /\ Top(t).pc = pc
Push(t, frame) == [stack EXCEPT ![t] = Append(@, frame)]
Pop(t) == [stack EXCEPT ![t] = SubSeq(@, 1, Len(@) - 1)]
Goto(t, pc) == [stack EXCEPT ![t][Len(stack[t])].pc = pc]
NoHandlerRunning == \A t \in Threads : stack[t] = <<>>
\* the default action of a signal ends the process, and with it every thread
NoThreads == [t \in Threads |-> <<>>]

(***************************************************************************)
(* setTerminationSignals: four sigaction calls, in the code's order.       *)
(***************************************************************************)
TermInstallOrder == <<SIGTERM, SIGINT, SIGQUIT, SIGHUP>>

setTerminationSignals ==
    /\ proc = "running"
    /\ stack[MainThread] = <<>>
    /\ setupPc < Len(TermInstallOrder)
    /\ setupPc' = setupPc + 1
    /\ disp' = [disp EXCEPT ![TermInstallOrder[setupPc + 1]] = "handleTerminationSignal"]
    /\ UNCHANGED <<TerminationFlag, stack, proc, killedBy, stderrOut, deliveries,
                 fatalVars, rngVars, idVars, strVars, nameVars, heapVars>>

(***************************************************************************)
(* Delivery of a termination signal s to thread t.  With the default       *)
(* disposition the process ends; otherwise handleTerminationSignal is      *)
(* entered on t.  `alone` restricts delivery to moments when no handler    *)
(* is running anywhere (each handled to completion before the next).       *)
(***************************************************************************)
TermFrame(s) == [h |-> "term", sig |-> s, pc |-> "test"]

DeliverTermination(t, s, alone) ==
    /\ proc = "running"
    /\ Len(deliveries) < MaxDeliveries
    /\ s \notin Blocked(t)
    /\ alone => NoHandlerRunning
    /\ IF disp[s] = "SIG_DFL"
       THEN /\ proc' = "terminated"
            /\ killedBy' = s
            /\ stack' = NoThreads
            /\ UNCHANGED deliveries
       ELSE /\ stack' = Push(t, TermFrame(s))
            /\ deliveries' = Append(deliveries, s)
            /\ UNCHANGED <<proc, killedBy>>
    /\ UNCHANGED <<TerminationFlag, disp, setupPc, stderrOut,
                 fatalVars, rngVars, idVars, strVars, nameVars, heapVars>>

(***************************************************************************)
(* handleTerminationSignal, one step per statement.                        *)
(***************************************************************************)
\* if (!TerminationFlag)
TermTestMutantAlwaysLog(flag) == "set"
TermTest(flag) == IF ~flag THEN "set" ELSE "return"

handleTermination_test(t) ==
    /\ InHandler(t, "term", "test")
    /\ stack' = Goto(t, TermTest(TerminationFlag))
    /\ UNCHANGED <<TerminationFlag, disp, setupPc, proc, killedBy, stderrOut, deliveries,
                 fatalVars, rngVars, idVars, strVars, nameVars, heapVars>>

\* TerminationFlag = true;
handleTermination_set(t) ==
    /\ InHandler(t, "term", "set")
    /\ TerminationFlag' = TRUE
    /\ stack' = Goto(t, "logPrefix")
    /\ UNCHANGED <<disp, setupPc, proc, killedBy, stderrOut, deliveries,
                 fatalVars, rngVars, idVars, strVars, nameVars, heapVars>>

\* Log::signalLogPrefix(); Log::signalLog(...) x 3
handleTermination_log(t) ==
    /\ Running(t)
    /\ Top(t).h = "term"
    /\ \/ /\ Top(t).pc = "logPrefix"
          /\ stderrOut' = signalLog(stderrOut, LogPrefix)
          /\ stack' = Goto(t, "logMsg")
       \/ /\ Top(t).pc = "logMsg"
          /\ stderrOut' = signalLog(stderrOut, Str(" Termination signal received: "))
          /\ stack' = Goto(t, "logName")
       \/ /\ Top(t).pc = "logName"
          /\ stderrOut' = signalLog(stderrOut, Str(signalName(Top(t).sig)))
          /\ stack' = Goto(t, "logNl")
       \/ /\ Top(t).pc = "logNl"
          /\ stderrOut' = signalLog(stderrOut, Str("\n"))
          /\ stack' = Goto(t, "return")
    /\ UNCHANGED <<TerminationFlag, disp, setupPc, proc, killedBy, deliveries,
                 fatalVars, rngVars, idVars, strVars, nameVars, heapVars>>

\* the handler returns: the interrupted code resumes, the signal is unblocked
handleTermination_return(t) ==
    /\ InHandler(t, "term", "return")
    /\ stack' = Pop(t)
    /\ UNCHANGED <<TerminationFlag, disp, setupPc, proc, killedBy, stderrOut, deliveries,
                 fatalVars, rngVars, idVars, strVars, nameVars, heapVars>>

handleTerminationSignal(t) ==
    \/ handleTermination_test(t)
    \/ handleTermination_set(t)
    \/ handleTermination_log(t)
    \/ handleTermination_return(t)

(***************************************************************************)
(* Random strings.  Bytes are 0..255; characters are their ASCII codes.    *)
(***************************************************************************)
ByteVals == {0, 77, 255}
Slash == 47
Underscore == 95
CR == 13
LF == 10
\* Poco::Base64Encoder's line length when none is given
LineLength == 72

\* the Base64 alphabet: A-Z, a-z, 0-9, '+', '/'
B64Char(i) ==
    IF i < 26 THEN 65 + i
    ELSE IF i < 52 THEN 97 + (i - 26)
    ELSE IF i < 62 THEN 48 + (i - 52)
    ELSE IF i = 62 THEN 43
    ELSE Slash

\* the four characters of one whole group of three bytes
EncodeGroup(g) ==
    << B64Char(g[1] \div 4),
       B64Char((g[1] % 4) * 16 + g[2] \div 16),
       B64Char((g[2] % 16) * 4 + g[3] \div 64),
       B64Char(g[3] % 64) >>

\* Base64EncoderBuf::writeToDevice, byte by byte: every third byte completes
\* a group, which is written out as four characters, followed by "\r\n" when
\* the line then holds LineLength characters (a multiple of four); the bytes
\* of an incomplete group stay in the encoder until close().  Base64Write is
\* the stream after the first `groups` whole groups of `bytes`.
RECURSIVE Base64Write(_, _)
Base64Write(bytes, groups) ==
    IF groups = 0
    THEN <<>>
    ELSE Base64Write(bytes, groups - 1)
            \o EncodeGroup(SubSeq(bytes, 3 * groups - 2, 3 * groups))
            \o (IF (4 * groups) % LineLength = 0 THEN <<CR, LF>> ELSE <<>>)

\* operator<<(std::ostream&, const char*): the bytes before the first '\0'
CString(mem) ==
    LET zeros == {i \in 1..Len(mem) : mem[i] = 0}
    IN IF zeros = {}
       THEN mem
       ELSE SubSeq(mem, 1, (CHOOSE i \in zeros : \A j \in zeros : i <= j) - 1)

\* std::string::substr(0, length)
substr(str, length) == SubSeq(str, 1, IF length < Len(str) THEN length ELSE Len(str))

\* std::replace(s.begin(), s.end(), a, b)
ReplaceMutantNone(str, a, b) == str
Replace(str, a, b) == [i \in 1..Len(str) |-> IF str[i] = a THEN b ELSE str[i]]

(***************************************************************************)
(* What the device delivers for a vector of `length` bytes: every sequence *)
(* over ByteVals for the short lengths; for the directory name's 64 bytes, *)
(* one repeated non-zero byte with at most one zero byte, at a place of    *)
(* ZeroPlaces.  When the vector holds no zero byte, operator<< reads on    *)
(* past its end: what it finds there is any run of non-zero bytes.         *)
(***************************************************************************)
RECURSIVE ByteSeqs(_)
ByteSeqs(n) ==
    IF n = 0 THEN {<<>>}
    ELSE {Append(v, b) : v \in ByteSeqs(n - 1), b \in ByteVals}
DirNameLength == 64
ZeroPlaces == {0, 1, 2, 48, 49, 64}
Delivered(length) ==
    IF length <= MaxLen
    THEN ByteSeqs(length)
    ELSE {[i \in 1..length |-> IF i = z THEN 0 ELSE b] :
             z \in ZeroPlaces, b \in ByteVals \ {0}}
RECURSIVE Beyond(_)
Beyond(n) ==
    IF n = 0 THEN {<<>>}
    ELSE Beyond(n - 1) \cup
         {Append(v, b) : v \in {w \in Beyond(n - 1) : Len(w) = n - 1}, b \in ByteVals \ {0}}

\* getFilename(length) is called
getFilename_call(length) ==
    /\ sPc = "idle"
    /\ sPc' = "getBytes"
    /\ sLen' = length
    /\ sVec' = <<>>
    /\ sMem' = <<>>
    /\ sStream' = <<>>
    /\ sStr' = <<>>
    /\ sRet' = <<>>
    /\ UNCHANGED <<sigVars, fatalVars, rngVars, idVars, nameVars, heapVars>>

\* createRandomDir: const auto name = rng::getFilename(64);
createRandomDir_call ==
    /\ sPc = "idle"
    /\ getFilename_call(DirNameLength)

\* getBytes: std::vector<char> v(length); _randBuf.readFromDevice(v.data(), v.size());
getBytes ==
    /\ sPc = "getBytes"
    /\ \E v \in Delivered(sLen), m \in Beyond(MaxOverread) :
          /\ sVec' = v
          /\ sMem' = m
    /\ sPc' = "encode"
    /\ UNCHANGED <<sLen, sStream, sStr, sRet, sigVars, fatalVars, rngVars, idVars, nameVars, heapVars>>

\* getB64String: b64 << getBytes(length).data(); the char* is written as a C string
getB64String_encode ==
    /\ sPc = "encode"
    /\ LET text == CString(sVec \o sMem)
       IN sStream' = Base64Write(text, Len(text) \div 3)
    /\ sPc' = "substr"
    /\ UNCHANGED <<sLen, sVec, sMem, sStr, sRet, sigVars, fatalVars, rngVars, idVars, nameVars, heapVars>>

\* getB64String: return ss.str().substr(0, length);   (std::string s = ...)
getB64String_return ==
    /\ sPc = "substr"
    /\ sStr' = substr(sStream, sLen)
    /\ sPc' = "replace"
    /\ UNCHANGED <<sLen, sVec, sMem, sStream, sRet, sigVars, fatalVars, rngVars, idVars, nameVars, heapVars>>

\* getFilename: std::replace(s.begin(), s.end(), '/', '_'); return s.substr(0, length);
getFilename_return ==
    /\ sPc = "replace"
    /\ sRet' = substr(Replace(sStr, Slash, Underscore), sLen)
    /\ sPc' = "done"
    /\ UNCHANGED <<sLen, sVec, sMem, sStream, sStr, sigVars, fatalVars, rngVars, idVars, nameVars, heapVars>>

\* the caller takes the string; the next call can start
getFilename_done ==
    /\ sPc = "done"
    /\ sPc' = "idle"
    /\ UNCHANGED <<sLen, sVec, sMem, sStream, sStr, sRet, sigVars, fatalVars, rngVars, idVars, nameVars, heapVars>>

getFilename ==
    \/ \E length \in 0..MaxLen : getFilename_call(length)
    \/ createRandomDir_call
    \/ getBytes
    \/ getB64String_encode
    \/ getB64String_return
    \/ getFilename_return
    \/ getFilename_done

InitStr ==
    /\ sPc = "idle"
    /\ sLen = 0
    /\ sVec = <<>>
    /\ sMem = <<>>
    /\ sStream = <<>>
    /\ sStr = <<>>
    /\ sRet = <<>>

(***************************************************************************)
(* UniqueId.  counter is a std::atomic_int: 32 bits, and counter++ past    *)
(* INT_MAX wraps to INT_MIN (atomic arithmetic is two's complement).       *)
(***************************************************************************)
IntMax == 2147483647
IntMin == (-IntMax) - 1
Minus == 45
Pids == {1, DefaultPid, 32768}

\* the value of a 32-bit int n after `times` increments, 0 <= times <= IntMax
FetchAdd(n, times) ==
    IF n <= IntMax - times THEN n + times ELSE IntMin + (times - (IntMax - n) - 1)

\* std::to_string(int): the decimal digits, with '-' in front of a negative
RECURSIVE Digits(_)
Digits(n) == IF n < 10 THEN <<48 + n>> ELSE Digits(n \div 10) \o <<48 + (n % 10)>>
RECURSIVE NegDigits(_)
NegDigits(n) ==
    IF n = 0 THEN <<>>
    ELSE LET d == (10 - (n % 10)) % 10
         IN NegDigits((n + d) \div 10) \o <<48 + d>>
to_string(n) == IF n >= 0 THEN Digits(n) ELSE <<Minus>> \o NegDigits(n)

\* return std::to_string(Poco::Process::id()) + "/" + std::to_string(counter++);
\* called `times` times in a row by the one caller, who keeps the last string
UniqueIdTimes(times) ==
    /\ ids' = Append(ids, to_string(pid) \o <<Slash>> \o to_string(FetchAdd(counter, times - 1)))
    /\ counter' = FetchAdd(counter, times)
    /\ UNCHANGED <<pid, idThr, sigVars, fatalVars, rngVars, strVars, nameVars, heapVars>>

\* one call
UniqueId ==
    /\ Len(ids) < MaxCalls
    /\ UniqueIdTimes(1)

\* a long run of calls: all but two of the non-negative values of an int
LongRun == IntMax - 1
UniqueId_repeat ==
    /\ ids # <<>>
    /\ Len(ids) < MaxCalls
    /\ UniqueIdTimes(LongRun)

(***************************************************************************)
(* UniqueId called from every thread.  counter++ is one atomic             *)
(* fetch-and-add; the string is built from the fetched value afterwards.   *)
(***************************************************************************)
IdleCaller == [pc |-> "idle", val |-> 0]
InFlight == {u \in Threads : idThr[u].pc = "fetched"}

\* counter++ (std::atomic_int::operator++(int))
UniqueId_fetch(t) ==
    /\ idThr[t].pc = "idle"
    /\ Len(ids) + Cardinality(InFlight) < MaxCalls
    /\ idThr' = [idThr EXCEPT ![t] = [pc |-> "fetched", val |-> counter]]
    /\ counter' = FetchAdd(counter, 1)
    /\ UNCHANGED <<pid, ids, sigVars, fatalVars, rngVars, strVars, nameVars, heapVars>>

\* return std::to_string(Poco::Process::id()) + "/" + std::to_string(<fetched>);
UniqueId_return(t) ==
    /\ idThr[t].pc = "fetched"
    /\ ids' = Append(ids, to_string(pid) \o <<Slash>> \o to_string(idThr[t].val))
    /\ idThr' = [idThr EXCEPT ![t] = IdleCaller]
    /\ UNCHANGED <<pid, counter, sigVars, fatalVars, rngVars, strVars, nameVars, heapVars>>

\* a long run of whole calls made by thread t while the others stand still
UniqueId_run(t) ==
    /\ idThr[t].pc = "idle"
    /\ ids # <<>>
    /\ Len(ids) + Cardinality(InFlight) < MaxCalls
    /\ UniqueIdTimes(LongRun)

UniqueIdThread(t) ==
    \/ UniqueId_fetch(t)
    \/ UniqueId_return(t)
    \/ UniqueId_run(t)

InitId ==
    /\ pid = DefaultPid
    /\ counter = 0
    /\ ids = <<>>
    /\ idThr = [t \in Threads |-> IdleCaller]

(***************************************************************************)
(* rng: the generator behind _rngMutex.  The mt19937_64 state is a number  *)
(* of GenStates; one call of _rng() reads the state, then writes the       *)
(* advanced state and yields the tempered output: two memory steps.        *)
(***************************************************************************)
GenStep(s) == (s + 1) % GenMod
GenOut(s) == (3 * s + 1) % GenMod
Seeding == {u \in Threads : thr[u].pc = "seeding"}
Drawing == {u \in Threads : thr[u].pc \in {"load", "store", "unlock"}}
OwnCode(t) == proc = "running" /\ stack[t] = <<>>

\* std::unique_lock<std::mutex> lock(_rngMutex): blocks while the mutex is held
LockMutantNoWait(holder) == TRUE
LockAcquirable(holder) == holder = 0

getNext_call(t) ==
    /\ OwnCode(t)
    /\ thr[t].pc = "idle"
    /\ thr' = [thr EXCEPT ![t].pc = "lock"]
    /\ UNCHANGED <<rngMutex, rngState, sigVars, fatalVars, idVars, strVars, nameVars, heapVars>>

getNext_lock(t) ==
    /\ OwnCode(t)
    /\ thr[t].pc = "lock"
    /\ LockAcquirable(rngMutex)
    /\ rngMutex' = t
    /\ thr' = [thr EXCEPT ![t].pc = "load"]
    /\ UNCHANGED <<rngState, sigVars, fatalVars, idVars, strVars, nameVars, heapVars>>

\* _rng(), first half: read the state (any value while a reseed is writing it)
getNext_load(t) ==
    /\ OwnCode(t)
    /\ thr[t].pc = "load"
    /\ \E v \in GenStates :
          /\ (Seeding = {}) => v = rngState
          /\ thr' = [thr EXCEPT ![t].pc = "store", ![t].loaded = v]
    /\ UNCHANGED <<rngMutex, rngState, sigVars, fatalVars, idVars, strVars, nameVars, heapVars>>

\* _rng(), second half: write the advanced state, yield the output
getNext_store(t) ==
    /\ OwnCode(t)
    /\ thr[t].pc = "store"
    /\ \E v \in GenStates :
          /\ (Seeding = {}) => v = GenStep(thr[t].loaded)
          /\ rngState' = v
    /\ thr' = [thr EXCEPT ![t].pc = "unlock", ![t].ret = GenOut(thr[t].loaded),
                          ![t].loaded = 0]
    /\ UNCHANGED <<rngMutex, sigVars, fatalVars, idVars, strVars, nameVars, heapVars>>

\* return: the unique_lock's destructor releases the mutex
UnlockMutantKeepsHeld(holder) == holder
Unlock(holder) == 0

getNext_unlock(t) ==
    /\ OwnCode(t)
    /\ thr[t].pc = "unlock"
    /\ rngMutex' = Unlock(rngMutex)
    /\ thr' = [thr EXCEPT ![t].pc = "idle", ![t].ret = 0]
    /\ UNCHANGED <<rngState, sigVars, fatalVars, idVars, strVars, nameVars, heapVars>>

getNext(t) ==
    \/ getNext_call(t)
    \/ getNext_lock(t)
    \/ getNext_load(t)
    \/ getNext_store(t)
    \/ getNext_unlock(t)

(***************************************************************************)
(* The heap.  The normal-path code allocates (std::vector<char> v(length)  *)
(* in getBytes, the std::string and stream objects); while a thread is     *)
(* inside malloc() or free() it holds the allocator's lock, which is not   *)
(* recursive.                                                              *)
(***************************************************************************)
malloc_enter(t) ==
    /\ OwnCode(t)
    /\ thr[t].pc = "idle"
    /\ heapLock = 0
    /\ heapLock' = t
    /\ thr' = [thr EXCEPT ![t].pc = "malloc"]
    /\ UNCHANGED <<rngMutex, rngState, sigVars, fatalVars, idVars, strVars, nameVars>>

malloc_exit(t) ==
    /\ OwnCode(t)
    /\ thr[t].pc = "malloc"
    /\ heapLock' = 0
    /\ thr' = [thr EXCEPT ![t].pc = "idle"]
    /\ UNCHANGED <<rngMutex, rngState, sigVars, fatalVars, idVars, strVars, nameVars>>

malloc(t) ==
    \/ malloc_enter(t)
    \/ malloc_exit(t)

(***************************************************************************)
(* reseed: _rng.seed(...) with no lock taken.  The seed (_rd() or          *)
(* clock() + getpid()) is any value; writing the state takes from          *)
(* reseed_begin to reseed_end, and a write that overlaps a draw or another *)
(* reseed is a data race that can leave any state.                         *)
(***************************************************************************)
reseed_begin(t) ==
    /\ OwnCode(t)
    /\ thr[t].pc = "idle"
    /\ \E seed \in GenStates : thr' = [thr EXCEPT ![t].pc = "seeding", ![t].loaded = seed]
    /\ UNCHANGED <<rngMutex, rngState, sigVars, fatalVars, idVars, strVars, nameVars, heapVars>>

reseed_end(t) ==
    /\ OwnCode(t)
    /\ thr[t].pc = "seeding"
    /\ \E v \in GenStates :
          /\ (Seeding = {t} /\ \A u \in Threads : thr[u].pc # "store") => v = thr[t].loaded
          /\ rngState' = v
    /\ thr' = [thr EXCEPT ![t].pc = "idle", ![t].loaded = 0]
    /\ UNCHANGED <<rngMutex, sigVars, fatalVars, idVars, strVars, nameVars, heapVars>>

reseed(t) ==
    \/ reseed_begin(t)
    \/ reseed_end(t)

(***************************************************************************)
(* setFatalSignals: five sigaction calls in the code's order, then the     *)
(* attach text is formatted into a std::string and strncpy'd into          *)
(* FatalGdbString (a copy in progress leaves the buffer partly written).   *)
(***************************************************************************)
FatalInstallOrder == <<SIGSEGV, SIGBUS, SIGABRT, SIGILL, SIGFPE>>
SetupDone == Len(FatalInstallOrder) + 3

setFatalSignals ==
    /\ OwnCode(MainThread)
    /\ thr[MainThread].pc = "idle"
    /\ setupPc < SetupDone
    /\ setupPc' = setupPc + 1
    /\ disp' = IF setupPc < Len(FatalInstallOrder)
               THEN [disp EXCEPT ![FatalInstallOrder[setupPc + 1]] = "handleFatalSignal"]
               ELSE disp
    /\ FatalGdbString' =
          CASE setupPc = Len(FatalInstallOrder) + 1 -> "partial"   \* strncpy under way
            [] setupPc = Len(FatalInstallOrder) + 2 -> "full"      \* strncpy done
            [] OTHER -> FatalGdbString                             \* sigaction, stream <<
    /\ UNCHANGED <<TerminationFlag, stack, proc, killedBy, stderrOut, deliveries,
                   pending, loolDebug, faults, rngVars, idVars, strVars, nameVars, heapVars>>

(***************************************************************************)
(* A fatal signal s is generated for thread t (a fault in the code it is   *)
(* running, or a signal sent to it) while s is not blocked there, and a    *)
(* signal pending for the process is delivered to a thread that does not   *)
(* block it.  The default action of every fatal signal ends the process;   *)
(* otherwise handleFatalSignal is entered on the thread.  `inDraw`         *)
(* restricts the faults to threads that are inside getNext, holding the    *)
(* generator mutex.                                                        *)
(***************************************************************************)
FatalFrame(s, origin) ==
    [h |-> "fatal", sig |-> s, pc |-> "log", from |-> origin,
     numSlots |-> 0, symbols |-> FALSE, raises |-> 0, allocs |-> 0,
     writes |-> 0, iovcnt |-> 0, result |-> 0]

Deliver(t, s, origin) ==
    IF disp[s] = "SIG_DFL"
    THEN /\ proc' = "terminated"
         /\ killedBy' = s
         /\ stack' = NoThreads
         /\ UNCHANGED deliveries
    ELSE /\ stack' = Push(t, FatalFrame(s, origin))
         /\ deliveries' = Append(deliveries, s)
         /\ UNCHANGED <<proc, killedBy>>

\* the fatal signals the environment generates: the first and the last installed
FaultSignals == {SIGSEGV, SIGFPE}

FatalFault(t, s, inDraw) ==
    /\ proc = "running"
    /\ faults < MaxFaults
    /\ s \notin Blocked(t)
    /\ inDraw => rngMutex = t
    /\ faults' = faults + 1
    /\ Deliver(t, s, "fault")
    /\ UNCHANGED <<TerminationFlag, disp, setupPc, stderrOut,
                   pending, FatalGdbString, loolDebug, rngVars, idVars, strVars, nameVars, heapVars>>

DeliverPending(t, s) ==
    /\ proc = "running"
    /\ s \in pending
    /\ s \notin Blocked(t)
    /\ pending' = pending \ {s}
    /\ Deliver(t, s, "raise")
    /\ UNCHANGED <<TerminationFlag, disp, setupPc, stderrOut,
                   FatalGdbString, loolDebug, faults, rngVars, idVars, strVars, nameVars, heapVars>>

(***************************************************************************)
(* handleFatalSignal, one step per call it makes.                          *)
(***************************************************************************)
SetTop(t, f) == [stack EXCEPT ![t][Len(stack[t])] = f]
FatalAt(t, pc) == InHandler(t, "fatal", pc)

\* the locks a step of the handler takes: no statement takes _rngMutex;
\* backtrace_symbols() obtains its result array from malloc(), which takes the
\* allocator's lock for the time of the call
FatalStepLocksMutantLogLocks(pc) == IF pc = "log" THEN {"_rngMutex"} ELSE {}
FatalStepLocks(pc) == IF pc = "symbols" THEN {"heap"} ELSE {}
LockHolder(l) == IF l = "_rngMutex" THEN rngMutex ELSE heapLock
\* the heap allocations a step of the handler makes
FatalStepAllocs(pc) == IF pc = "symbols" THEN 1 ELSE 0
CanStep(t) == \A l \in FatalStepLocks(Top(t).pc) : LockHolder(l) = 0

\* Log::signalLogPrefix(); Log::signalLog(" Fatal signal received: ") ...
FatalLine(s) ==
    <<LogPrefix, Str(" Fatal signal received: "), Str(signalName(s)), Str("\n")>>

handleFatal_log(t) ==
    /\ FatalAt(t, "log")
    /\ CanStep(t)
    /\ stderrOut' = stderrOut \o FatalLine(Top(t).sig)
    /\ stack' = Goto(t, "getenv")
    /\ UNCHANGED <<TerminationFlag, disp, setupPc, proc, killedBy, deliveries,
                   fatalVars, rngVars, idVars, strVars, nameVars, heapVars>>

\* if (std::getenv("LOOL_DEBUG")): non-null whenever the variable is set
getenv(value) == value # "unset"

handleFatal_getenv(t) ==
    /\ FatalAt(t, "getenv")
    /\ CanStep(t)
    /\ stack' = Goto(t, IF getenv(loolDebug) THEN "hint" ELSE "reset")
    /\ UNCHANGED <<TerminationFlag, disp, setupPc, proc, killedBy, stderrOut, deliveries,
                   fatalVars, rngVars, idVars, strVars, nameVars, heapVars>>

\* Log::signalLog(FatalGdbString): the buffer as it stands, up to its first '\0'
GdbText(buffer) ==
    CASE buffer = "empty" -> Str("")
      [] buffer = "partial" -> Str("\nFatal signal! Attach debugger with:\nsudo gdb --pid=")
      [] buffer = "full" ->
            Fmt("\nFatal signal! Attach debugger with:\nsudo gdb --pid=%d\n or \nsudo gdb --q --n --ex 'thread apply all backtrace full' --batch --pid=%d\n", pid)

handleFatal_hint(t) ==
    /\ FatalAt(t, "hint")
    /\ CanStep(t)
    /\ stderrOut' = signalLog(stderrOut, GdbText(FatalGdbString))
    /\ stack' = Goto(t, "sleep")
    /\ UNCHANGED <<TerminationFlag, disp, setupPc, proc, killedBy, deliveries,
                   fatalVars, rngVars, idVars, strVars, nameVars, heapVars>>

\* sleep(30): returns after at most 30 seconds
handleFatal_sleep(t) ==
    /\ FatalAt(t, "sleep")
    /\ CanStep(t)
    /\ stack' = Goto(t, "reset")
    /\ UNCHANGED <<TerminationFlag, disp, setupPc, proc, killedBy, stderrOut, deliveries,
                   fatalVars, rngVars, idVars, strVars, nameVars, heapVars>>

\* action.sa_handler = SIG_DFL; sigaction(signal, &action, NULL);
ResetMutantKeepsHandler(d, s) == d
ResetDisposition(d, s) == [d EXCEPT ![s] = "SIG_DFL"]

handleFatal_reset(t) ==
    /\ FatalAt(t, "reset")
    /\ CanStep(t)
    /\ disp' = ResetDisposition(disp, Top(t).sig)
    /\ stack' = Goto(t, "backtrace")
    /\ UNCHANGED <<TerminationFlag, setupPc, proc, killedBy, stderrOut, deliveries,
                   fatalVars, rngVars, idVars, strVars, nameVars, heapVars>>

\* sprintf(header, ...); int numSlots = backtrace(backtraceBuffer, maxSlots);
SlotCounts == {0, 1, maxSlots}
AfterBacktrace(n) == IF n > 0 THEN "symbols" ELSE "kill"

handleFatal_backtrace(t) ==
    /\ FatalAt(t, "backtrace")
    /\ CanStep(t)
    /\ \E n \in SlotCounts :
          stack' = SetTop(t, [Top(t) EXCEPT !.numSlots = n, !.pc = AfterBacktrace(n)])
    /\ UNCHANGED <<TerminationFlag, disp, setupPc, proc, killedBy, stderrOut, deliveries,
                   fatalVars, rngVars, idVars, strVars, nameVars, heapVars>>

\* char **symbols = backtrace_symbols(...); if (symbols != NULL)
AfterSymbolsMutantWritesAnyway(ok) == "writev"
AfterSymbols(ok) == IF ok THEN "writev" ELSE "kill"

handleFatal_symbols(t) ==
    /\ FatalAt(t, "symbols")
    /\ CanStep(t)
    /\ \E ok \in BOOLEAN :
          stack' = SetTop(t, [Top(t) EXCEPT !.symbols = ok, !.pc = AfterSymbols(ok),
                                            !.allocs = @ + FatalStepAllocs("symbols")])
    /\ UNCHANGED <<TerminationFlag, disp, setupPc, proc, killedBy, stderrOut, deliveries,
                   fatalVars, rngVars, idVars, strVars, nameVars, heapVars>>

\* ioVector[0] = header; for (i < numSlots) { ioVector[1+i*2] = symbols[i];
\* ioVector[1+i*2+1] = "\n"; }
RECURSIVE FillVector(_, _, _)
FillVector(vec, i, n) ==
    IF i < n
    THEN FillVector(vec \o <<Fmt("symbols[%d]", i), Str("\n")>>, i + 1, n)
    ELSE vec

Header == Fmt("Backtrace %d:\n", pid)
ioVectorMutantNoHeader(numSlots) == FillVector(<<>>, 0, numSlots)
ioVector(numSlots) == FillVector(<<Header>>, 0, numSlots)

\* struct iovec ioVector[maxSlots*2+1] and the indices the fill loop assigns
ioVectorSize == maxSlots * 2 + 1
ioVectorIndices(numSlots) ==
    {0} \cup {1 + i * 2 + 0 : i \in 0..(numSlots - 1)}
        \cup {1 + i * 2 + 1 : i \in 0..(numSlots - 1)}

\* if (writev(STDERR_FILENO, ioVector, numSlots*2+1) == -1): the call writes all
\* numSlots*2+1 fragments, or a part of them, or fails with -1
AfterWritevMutantSkipsRaise(result) == IF result = -1 THEN "return" ELSE "kill"
AfterWritev(result) == IF result = -1 THEN "syserror" ELSE "kill"

handleFatal_writev(t) ==
    /\ FatalAt(t, "writev")
    /\ CanStep(t)
    /\ LET count == Top(t).numSlots * 2 + 1
       IN \E written \in {-1, 1, count} :
             /\ stderrOut' = IF written = -1
                             THEN stderrOut
                             ELSE stderrOut \o SubSeq(ioVector(Top(t).numSlots), 1, written)
             /\ stack' = SetTop(t, [Top(t) EXCEPT !.pc = AfterWritev(written),
                                               !.writes = @ + 1,
                                               !.iovcnt = count,
                                               !.result = written])
    /\ UNCHANGED <<TerminationFlag, disp, setupPc, proc, killedBy, deliveries,
                   fatalVars, rngVars, idVars, strVars, nameVars, heapVars>>

\* Log::syserror("Failed to dump backtrace to stderr."): the ordinary logger
syserror(out, message) == Append(out, message)

handleFatal_syserror(t) ==
    /\ FatalAt(t, "syserror")
    /\ CanStep(t)
    /\ stderrOut' = syserror(stderrOut, Str("Failed to dump backtrace to stderr."))
    /\ stack' = Goto(t, "kill")
    /\ UNCHANGED <<TerminationFlag, disp, setupPc, proc, killedBy, deliveries,
                   fatalVars, rngVars, idVars, strVars, nameVars, heapVars>>

\* kill(Poco::Process::id(), signal): the signal becomes pending for the process
handleFatal_kill(t) ==
    /\ FatalAt(t, "kill")
    /\ CanStep(t)
    /\ pending' = pending \cup {Top(t).sig}
    /\ stack' = SetTop(t, [Top(t) EXCEPT !.raises = @ + 1, !.pc = "return"])
    /\ UNCHANGED <<TerminationFlag, disp, setupPc, proc, killedBy, stderrOut, deliveries,
                   FatalGdbString, loolDebug, faults, rngVars, idVars, strVars, nameVars, heapVars>>

\* the handler returns and its signal is unblocked on the thread: if the signal is
\* pending it is delivered there before the interrupted code resumes
handleFatal_return(t) ==
    /\ FatalAt(t, "return")
    /\ LET s == Top(t).sig
       IN IF s \in pending
          THEN /\ pending' = pending \ {s}
               /\ IF disp[s] = "SIG_DFL"
                  THEN /\ proc' = "terminated"
                       /\ killedBy' = s
                       /\ stack' = NoThreads
                       /\ UNCHANGED deliveries
                  ELSE /\ stack' = [stack EXCEPT ![t] =
                                      Append(SubSeq(@, 1, Len(@) - 1), FatalFrame(s, "raise"))]
                       /\ deliveries' = Append(deliveries, s)
                       /\ UNCHANGED <<proc, killedBy>>
          ELSE /\ stack' = Pop(t)
               /\ UNCHANGED <<pending, proc, killedBy, deliveries>>
    /\ UNCHANGED <<TerminationFlag, disp, setupPc, stderrOut,
                   FatalGdbString, loolDebug, faults, rngVars, idVars, strVars, nameVars, heapVars>>

handleFatalSignal(t) ==
    \/ handleFatal_log(t)
    \/ handleFatal_getenv(t)
    \/ handleFatal_hint(t)
    \/ handleFatal_sleep(t)
    \/ handleFatal_reset(t)
    \/ handleFatal_backtrace(t)
    \/ handleFatal_symbols(t)
    \/ handleFatal_writev(t)
    \/ handleFatal_syserror(t)
    \/ handleFatal_kill(t)
    \/ handleFatal_return(t)

InitRng ==
    /\ rngMutex = 0
    /\ rngState \in GenStates
    /\ thr = [t \in Threads |-> IdleThread]

InitFatal ==
    /\ pending = {}
    /\ FatalGdbString = "empty"
    /\ loolDebug \in {"unset", "empty", "value"}
    /\ faults = 0

InitSig ==
    /\ TerminationFlag = FALSE
    /\ disp = [s \in TermSignals \cup FatalSignals |-> "SIG_DFL"]
    /\ setupPc = 0
    /\ stack = [t \in Threads |-> <<>>]
    /\ proc = "running"
    /\ killedBy = 0
    /\ stderrOut = <<>>
    /\ deliveries = <<>>

(***************************************************************************)
(* Termination signals, each handled to completion before the next.        *)
(***************************************************************************)
InitTerm ==
    /\ InitStr
    /\ InitName
    /\ heapLock = 0
    /\ InitSig
    /\ pending = {}
    /\ FatalGdbString = "empty"
    /\ loolDebug = "unset"
    /\ faults = 0
    /\ rngMutex = 0
    /\ rngState = 0
    /\ thr = [t \in Threads |-> IdleThread]
    /\ InitId

NextTermSeq ==
    \/ setTerminationSignals
    \/ \E t \in Threads, s \in TermSignals : DeliverTermination(t, s, TRUE)
    \/ \E t \in Threads : handleTerminationSignal(t)

SpecTermSeq == InitTerm /\ [][NextTermSeq]_vars

(***************************************************************************)
(* Termination signals arriving at any moment, on any thread.              *)
(***************************************************************************)
NextTerm ==
    \/ setTerminationSignals
    \/ \E t \in Threads, s \in TermSignals : DeliverTermination(t, s, FALSE)
    \/ \E t \in Threads : handleTerminationSignal(t)

SpecTerm == InitTerm /\ [][NextTerm]_vars

(***************************************************************************)
(* The generator used from every thread: draws and reseeds in any order.   *)
(***************************************************************************)
InitRngSpec ==
    /\ InitStr
    /\ InitName
    /\ heapLock = 0
    /\ InitSig
    /\ InitRng
    /\ pending = {}
    /\ FatalGdbString = "empty"
    /\ loolDebug = "unset"
    /\ faults = 0
    /\ InitId

NextRng ==
    \/ \E t \in Threads : getNext(t)
    \/ \E t \in Threads : reseed(t)

SpecRng == InitRngSpec /\ [][NextRng]_vars

\* Fair scheduling: a thread inside getNext keeps running, and a thread waiting
\* for the mutex obtains it if the mutex is free again and again.
FairRng ==
    \A t \in Threads :
        /\ WF_vars(getNext_load(t) \/ getNext_store(t) \/ getNext_unlock(t))
        /\ SF_vars(getNext_lock(t))

SpecRngFair == SpecRng /\ FairRng

(***************************************************************************)
(* Fatal signals: the main thread installs the handling, every thread      *)
(* draws from the generator, and fatal signals arrive at any moment.       *)
(***************************************************************************)
InitFatalSpec ==
    /\ InitStr
    /\ InitName
    /\ heapLock = 0
    /\ InitSig
    /\ InitFatal
    /\ rngMutex = 0
    /\ rngState = 0
    /\ thr = [t \in Threads |-> IdleThread]
    /\ InitId

NextFatal ==
    \/ setFatalSignals
    \/ \E t \in Threads, s \in FaultSignals : FatalFault(t, s, FALSE)
    \/ \E t \in Threads, s \in FatalSignals : DeliverPending(t, s)
    \/ \E t \in Threads : handleFatalSignal(t)

SpecFatal == InitFatalSpec /\ [][NextFatal]_vars

(***************************************************************************)
(* Fatal signals in a process whose main thread has completed              *)
(* setFatalSignals and whose threads draw from the generator: a fatal      *)
(* signal interrupts a thread inside getNext, while it holds the mutex.    *)
(***************************************************************************)
InitCrashSpec ==
    /\ InitStr
    /\ InitName
    /\ heapLock = 0
    /\ TerminationFlag = FALSE
    /\ disp = [s \in TermSignals \cup FatalSignals |->
                 IF s \in FatalSignals THEN "handleFatalSignal" ELSE "SIG_DFL"]
    /\ setupPc = SetupDone
    /\ stack = [t \in Threads |-> <<>>]
    /\ proc = "running"
    /\ killedBy = 0
    /\ stderrOut = <<>>
    /\ deliveries = <<>>
    /\ pending = {}
    /\ FatalGdbString = "full"
    /\ loolDebug \in {"unset", "value"}
    /\ faults = 0
    /\ rngMutex = 0
    /\ rngState = 0
    /\ thr = [t \in Threads |-> IdleThread]
    /\ InitId

NextCrash ==
    \/ \E t \in Threads, s \in FaultSignals : FatalFault(t, s, TRUE)
    \/ \E t \in Threads, s \in FatalSignals : DeliverPending(t, s)
    \/ \E t \in Threads : handleFatalSignal(t)
    \/ \E t \in Threads : getNext(t)

SpecCrash == InitCrashSpec /\ [][NextCrash]_vars

(***************************************************************************)
(* Fatal signals in a process with the handling installed whose threads    *)
(* allocate: a fatal signal can interrupt a thread inside malloc().        *)
(* SpecHeapFair adds the scheduling: a handler that can take its next step *)
(* takes it, a pending signal is delivered, a thread inside malloc()       *)
(* leaves it.                                                              *)
(***************************************************************************)
NextHeap ==
    \/ \E t \in Threads, s \in FaultSignals : FatalFault(t, s, FALSE)
    \/ \E t \in Threads, s \in FatalSignals : DeliverPending(t, s)
    \/ \E t \in Threads : handleFatalSignal(t)
    \/ \E t \in Threads : malloc(t)

SpecHeap == InitCrashSpec /\ [][NextHeap]_vars

FairHeap ==
    /\ \A t \in Threads : WF_vars(handleFatalSignal(t))
    /\ \A t \in Threads : WF_vars(malloc_exit(t))
    /\ \A t \in Threads, s \in FatalSignals : WF_vars(DeliverPending(t, s))

SpecHeapFair == SpecHeap /\ FairHeap

(***************************************************************************)
(* One caller of getFilename and createRandomDir.                          *)
(***************************************************************************)
InitStrSpec ==
    /\ InitSig
    /\ InitStr
    /\ InitName
    /\ heapLock = 0
    /\ pending = {}
    /\ FatalGdbString = "empty"
    /\ loolDebug = "unset"
    /\ faults = 0
    /\ rngMutex = 0
    /\ rngState = 0
    /\ thr = [t \in Threads |-> IdleThread]
    /\ InitId

SpecStr == InitStrSpec /\ [][getFilename]_vars

(***************************************************************************)
(* One caller of UniqueId, in a process of any id.                         *)
(***************************************************************************)
InitIdSeq ==
    /\ InitSig
    /\ InitStr
    /\ InitName
    /\ heapLock = 0
    /\ pending = {}
    /\ FatalGdbString = "empty"
    /\ loolDebug = "unset"
    /\ faults = 0
    /\ rngMutex = 0
    /\ rngState = 0
    /\ thr = [t \in Threads |-> IdleThread]
    /\ pid \in Pids
    /\ counter = 0
    /\ ids = <<>>
    /\ idThr = [t \in Threads |-> IdleCaller]

NextIdSeq == UniqueId \/ UniqueId_repeat

SpecIdSeq == InitIdSeq /\ [][NextIdSeq]_vars

(***************************************************************************)
(* signalName applied to every signal number from 0 to MaxSigno.           *)
(***************************************************************************)
NextName ==
    \/ \E signo \in 0..MaxSigno : signalName_call(signo)
    \/ signalName_return

SpecName == InitStrSpec /\ [][NextName]_vars

(***************************************************************************)
(* Every thread calls UniqueId, in any interleaving.                       *)
(***************************************************************************)
NextId == \E t \in Threads : UniqueIdThread(t)

SpecId == InitIdSeq /\ [][NextId]_vars

(***************************************************************************)
(* Reading standard error: the number of complete lines, and the line a    *)
(* termination handler writes for signal s.                                *)
(***************************************************************************)
CountNl(out) == Cardinality({i \in 1..Len(out) : out[i] = Str("\n")})
TerminationLine(s) ==
    <<LogPrefix, Str(" Termination signal received: "), Str(signalName(s)), Str("\n")>>
IsPrefix(a, b) == Len(a) <= Len(b) /\ SubSeq(b, 1, Len(a)) = a
TermFrames == {<<t, i>> \in Threads \X (1..MaxDeliveries) : i <= Len(stack[t])}
Winners ==
    {f \in TermFrames :
        stack[f[1]][f[2]].pc \in {"set", "logPrefix", "logMsg", "logName", "logNl"}}

(* C1: with every delivery of a monitored termination signal handled to    *)
(* completion before the next arrives, standard error holds at most one    *)
(* termination line, written by the first delivery and naming its signal;  *)
(* once a delivery has completed the flag is true and the line is whole;   *)
(* and the flag, once true, stays true.                                    *)
C1_State ==
    /\ CountNl(stderrOut) <= 1
    /\ deliveries = <<>> => (stderrOut = <<>> /\ ~TerminationFlag)
    /\ deliveries # <<>> => IsPrefix(stderrOut, TerminationLine(deliveries[1]))
    /\ (deliveries # <<>> /\ NoHandlerRunning) =>
          (TerminationFlag /\ stderrOut = TerminationLine(deliveries[1]))
C1_OneLineFlagStays ==
    [](C1_State) /\ [][TerminationFlag => TerminationFlag']_vars

(* C1 witness: a second delivery, of another signal than the first, has    *)
(* run to completion and the output is still the first delivery's line.    *)
C1_Witness ==
    /\ Len(deliveries) >= 2
    /\ deliveries[2] # deliveries[1]
    /\ NoHandlerRunning
    /\ TerminationFlag
    /\ stderrOut = TerminationLine(deliveries[1])

(* C2: when executions of the termination handler overlap, exactly one of  *)
(* them wins the false-to-true transition of the flag and logs, so         *)
(* at most one termination line is ever emitted.                           *)
C2_SingleWinner ==
    /\ Cardinality(Winners) <= 1
    /\ CountNl(stderrOut) <= 1


(* C6: among any number of threads calling getNext at once, at most one    *)
(* is drawing from the generator and it is the holder of the mutex; and    *)
(* while a thread is between the two halves of its draw no other draw      *)
(* changes the generator (only a reseed, which takes no lock, can).        *)
C6_State ==
    /\ Cardinality(Drawing) <= 1
    /\ \A t \in Drawing : rngMutex = t
    /\ Drawing = {} => rngMutex = 0
C6_Step ==
    \A t \in Threads :
        (thr[t].pc = "store" /\ thr'[t].pc = "store" /\ rngState' # rngState) =>
            \E u \in Threads : thr[u].pc = "seeding" /\ thr'[u].pc = "idle"
C6_DrawsExclusive == [](C6_State) /\ [][C6_Step]_vars

(* C6 witness: one thread is in the middle of its draw, holding the mutex, *)
(* while another has called getNext and waits for the mutex.               *)
C6_Witness ==
    \E t, u \in Threads :
        /\ thr[t].pc = "store"
        /\ rngMutex = t
        /\ thr[u].pc = "lock"

(* C7: reseed writes the generator only while holding the mutex, so no     *)
(* state has a reseed in one thread overlapping a draw or another reseed   *)
(* in another thread.                                                      *)
C7_ReseedUnderMutex ==
    \A t \in Seeding :
        /\ rngMutex = t
        /\ Drawing \ {t} = {}
        /\ Seeding = {t}

(***************************************************************************)
(* The fatal-handler frames of all threads, at any nesting depth.          *)
(***************************************************************************)
FatalFrames ==
    {stack[t][i] : <<t, i>> \in
        {p \in Threads \X (1..(MaxFaults + Cardinality(FatalSignals))) :
            p[2] <= Len(stack[p[1]]) /\ stack[p[1]][p[2]].h = "fatal"}}
AfterReset == {"backtrace", "symbols", "writev", "syserror", "kill", "return"}
SyserrorLine == Str("Failed to dump backtrace to stderr.")
Written(out, fragment) == \E i \in 1..Len(out) : out[i] = fragment

(* C3: in every execution of the fatal handler for a signal s, the         *)
(* disposition of s is back to the default from the sigaction call on, so  *)
(* before the handler re-raises s; a re-raised signal always meets the     *)
(* default disposition and the handler is never entered by a re-raise.     *)
C3_ResetBeforeRaise ==
    /\ \A f \in FatalFrames :
          /\ f.pc \in AfterReset => disp[f.sig] = "SIG_DFL"
          /\ f.from = "fault"
    /\ \A s \in pending : disp[s] = "SIG_DFL"

(* C3 witness: a handler has re-raised its signal, which is pending with   *)
(* the default disposition in place.                                       *)
C3_Witness ==
    \E t \in Threads :
        /\ FatalAt(t, "return")
        /\ Top(t).sig \in pending
        /\ disp[Top(t).sig] = "SIG_DFL"

C8_ExactLength == sPc = "done" => Len(sRet) = sLen

(* C9: the string returned by getFilename contains no '/': every '/' of    *)
(* the Base64 text is replaced by '_'.                                     *)
C9_NoSlash ==
    sPc = "done" =>
        /\ \A i \in 1..Len(sRet) : sRet[i] # Slash
        /\ Len(sRet) = Len(sStr)
        /\ \A i \in 1..Len(sRet) :
              sRet[i] = IF sStr[i] = Slash THEN Underscore ELSE sStr[i]

(* C9 witness: the Base64 text held a '/' next to another character, and   *)
(* the returned string has '_' in its place.                               *)
C9_Witness ==
    /\ sPc = "done"
    /\ \E i, j \in 1..Len(sStr) :
          /\ sStr[i] = Slash
          /\ sRet[i] = Underscore
          /\ sStr[j] # Slash
          /\ sRet[j] = sStr[j]

\* reading an id back: the text before the '/', and the number after it
SlashAt(id) == CHOOSE i \in 1..Len(id) : id[i] = Slash /\ \A j \in 1..(i - 1) : id[j] # Slash
IdPrefix(id) == SubSeq(id, 1, SlashAt(id) - 1)
RECURSIVE ParseDigits(_, _, _, _)
ParseDigits(str, i, acc, sign) ==
    IF i > Len(str) THEN acc
    ELSE ParseDigits(str, i + 1, acc * 10 + sign * (str[i] - 48), sign)
ParseInt(str) ==
    IF str # <<>> /\ str[1] = Minus THEN ParseDigits(str, 2, 0, -1) ELSE ParseDigits(str, 1, 0, 1)
IdCounter(id) == ParseInt(SubSeq(id, SlashAt(id) + 1, Len(id)))
WellFormed(id) ==
    /\ \E i \in 1..Len(id) : id[i] = Slash
    /\ IdPrefix(id) = to_string(pid)
    /\ to_string(IdCounter(id)) = SubSeq(id, SlashAt(id) + 1, Len(id))

(* C10: the strings returned by sequential calls of UniqueId in one        *)
(* process all have the form "<pid>/<counter>" with the process's id, are  *)
(* pairwise distinct, and their counters are strictly increasing in the    *)
(* order of the calls, the first call's being 0.                           *)
C10_SequentialIds ==
    /\ \A i \in 1..Len(ids) : WellFormed(ids[i])
    /\ ids # <<>> => IdCounter(ids[1]) = 0
    /\ \A i, j \in 1..Len(ids) :
          i < j => /\ ids[i] # ids[j]
                   /\ IdCounter(ids[i]) < IdCounter(ids[j])

(* C11: in any interleaving of calls of UniqueId from several threads, no  *)
(* two calls return the same string.                                       *)
C11_UniqueUnderConcurrency ==
    \A i, j \in 1..Len(ids) : i < j => ids[i] # ids[j]

\* the names of <signal.h> for the monitored signals, and the case labels
CanonicalName ==
    [s \in TermSignals \cup FatalSignals |->
        CASE s = SIGHUP -> "SIGHUP" [] s = SIGINT -> "SIGINT" [] s = SIGQUIT -> "SIGQUIT"
          [] s = SIGTERM -> "SIGTERM" [] s = SIGSEGV -> "SIGSEGV" [] s = SIGBUS -> "SIGBUS"
          [] s = SIGABRT -> "SIGABRT" [] s = SIGILL -> "SIGILL" [] s = SIGFPE -> "SIGFPE"]
CaseLabels == SIGHUP..SIGSYS

(* C12: signalName returns the signal's own name for every signal of the   *)
(* termination and fatal sets, each name distinct, and "unknown" for every *)
(* number that is not a case label of its switch.                          *)
C12_SignalNames ==
    nPc = "returned" =>
        /\ nArg \in TermSignals \cup FatalSignals =>
              /\ nRet = CanonicalName[nArg]
              /\ \A s \in (TermSignals \cup FatalSignals) \ {nArg} : signalName(s) # nRet
        /\ nArg \notin CaseLabels => nRet = "unknown"
        /\ nArg \in CaseLabels => nRet # "unknown"

(* C12 witness: signalName has been called with SIGBUS and has returned    *)
(* "SIGBUS".                                                               *)
C12_Witness ==
    /\ nPc = "returned"
    /\ nArg = SIGBUS
    /\ nRet = "SIGBUS"

HandlerEntered(s) == \E i \in 1..Len(deliveries) : deliveries[i] = s
EndedByDefault ==
    /\ proc = "terminated"
    /\ HandlerEntered(killedBy)
    /\ disp[killedBy] = "SIG_DFL"

(* C13: once the fatal handler has been entered for a fatal signal, the    *)
(* process eventually terminates by the default disposition of a fatal     *)
(* signal that was delivered to it, and the handler is entered no more     *)
(* often than fatal signals were generated (never by a re-raise).          *)
C13_EventuallyDefault ==
    /\ \A s \in FatalSignals : HandlerEntered(s) ~> EndedByDefault
    /\ [](Len(deliveries) <= faults)

(* C14: no step of a running fatal handler has allocated heap memory, and  *)
(* no handler stands before a step that needs the allocator while the      *)
(* thread it interrupted is inside the allocator.                          *)
C14_NoHeapInHandler ==
    /\ \A f \in FatalFrames : f.allocs = 0
    /\ \A t \in Threads :
          (Running(t) /\ Top(t).h = "fatal") =>
              \A l \in FatalStepLocks(Top(t).pc) : l # "heap" \/ heapLock # t

HintFragments == {GdbText(b) : b \in {"empty", "partial", "full"}}

(* C15: the fatal handler emits the attach hint and pauses if and only if  *)
(* LOOL_DEBUG is set and non-empty: a handler stands at the hint or the    *)
(* pause only then, and with such a value a handler past them has written  *)
(* the hint.                                                               *)
C15_HintIffNonEmpty ==
    \A f \in FatalFrames :
        /\ f.pc \in {"hint", "sleep"} => loolDebug = "value"
        /\ (loolDebug = "value" /\ f.pc \in {"sleep"} \cup AfterReset) =>
              \E h \in HintFragments : Written(stderrOut, h)

(* C16: whenever the custom fatal handler is installed for at least one    *)
(* signal, FatalGdbString already holds the complete attach text, and a    *)
(* handler about to log the buffer finds it complete.                      *)
C16_BufferBeforeHandlers ==
    /\ (\E s \in FatalSignals : disp[s] = "handleFatalSignal") => FatalGdbString = "full"
    /\ \A f \in FatalFrames : f.pc = "hint" => FatalGdbString = "full"

\* a backtrace block on stderr that stops short: its header is not followed by
\* the first frame's symbol
PartialBlock(out) ==
    \E i \in 1..Len(out) :
        /\ out[i] = Header
        /\ (i = Len(out) \/ out[i + 1] # Fmt("symbols[%d]", 0))

(* C17: a writev that fails or writes only part of the block is reported   *)
(* as a warning by the ordinary logger outside signal context, after the   *)
(* handler has returned: no handler execution stands at the logger call, a *)
(* process that ended after a partial write has the warning on record, the *)
(* write is not retried, and a whole write leaves no warning.              *)
C17_WriteFailureReported ==
    /\ \A f \in FatalFrames : f.pc # "syserror"
    /\ (proc = "terminated" /\ PartialBlock(stderrOut)) => Written(stderrOut, SyserrorLine)
    /\ \A f \in FatalFrames : f.writes <= 1
    /\ \A f \in FatalFrames :
          (faults = 1 /\ f.writes = 1 /\ f.result = f.iovcnt) =>
              ~Written(stderrOut, SyserrorLine)

(* C18: one handler execution issues at most one vectored write; for n     *)
(* frames, 1 <= n <= maxSlots, the write has exactly 2n+1 fragments, the   *)
(* header first and then for each frame its symbol string followed by a    *)
(* newline, and every index the fill loop assigns lies inside the          *)
(* maxSlots*2+1 entries of ioVector.                                       *)
C18_SingleVectoredWrite ==
    \A f \in FatalFrames :
        /\ f.writes <= 1
        /\ f.writes = 1 =>
              LET n == f.numSlots
                  v == ioVector(n)
              IN /\ n \in 1..maxSlots
                 /\ f.iovcnt = 2 * n + 1
                 /\ Len(v) = f.iovcnt
                 /\ v[1] = Header
                 /\ \A i \in 0..(n - 1) :
                       /\ v[1 + i * 2 + 0 + 1] = Fmt("symbols[%d]", i)
                       /\ v[1 + i * 2 + 1 + 1] = Str("\n")
                 /\ ioVectorIndices(n) = 0..(f.iovcnt - 1)
                 /\ ioVectorIndices(n) \subseteq 0..(ioVectorSize - 1)
                 /\ f.result = f.iovcnt =>
                       \E k \in 0..(Len(stderrOut) - Len(v)) :
                           SubSeq(stderrOut, k + 1, k + Len(v)) = v

C18_Witness ==
    \E f \in FatalFrames :
        /\ f.pc = "kill"
        /\ f.writes = 1
        /\ f.numSlots = maxSlots
        /\ f.result = 2 * maxSlots + 1
        /\ Written(stderrOut, Fmt("symbols[%d]", maxSlots - 1))

\* a handler execution that got no frames, or no symbols for them
NoBacktrace(f) == f.pc \in {"kill", "return"} /\ (f.numSlots <= 0 \/ ~f.symbols)

(* C19: when backtrace yields no frames, or backtrace_symbols returns no   *)
(* symbols, the handler writes nothing for the backtrace block (no header, *)
(* no frame line), reports no error, and goes on to the re-raise.          *)
C19_NothingWithoutFrames ==
    \A f \in FatalFrames :
        /\ f.pc \in {"writev", "syserror"} => (f.numSlots > 0 /\ f.symbols)
        /\ NoBacktrace(f) =>
              /\ f.writes = 0
              /\ f.pc = "return" => f.raises = 1
              /\ faults = 1 =>
                    /\ ~Written(stderrOut, Header)
                    /\ ~Written(stderrOut, SyserrorLine)
                    /\ \A i \in 0..(maxSlots - 1) :
                          ~Written(stderrOut, Fmt("symbols[%d]", i))

C19_Witness ==
    \E f \in FatalFrames :
        /\ f.pc = "return"
        /\ f.numSlots = maxSlots
        /\ ~f.symbols
        /\ f.raises = 1
        /\ faults = 1

InsideGetNext(t) == thr[t].pc \in {"lock", "load", "store", "unlock"}

C20_Free == (\A t \in Threads : ~InsideGetNext(t)) => rngMutex = 0

C20_Step ==
    \A t \in Threads :
        /\ (thr[t].pc = "lock" /\ thr'[t].pc # "lock") =>
              (thr'[t].pc = "load" /\ rngMutex = 0 /\ rngMutex' = t)
        /\ (thr[t].pc # "unlock" /\ thr'[t].pc = "unlock") =>
              (thr[t].pc = "store" /\ rngMutex = t /\ thr'[t].ret = GenOut(thr[t].loaded))
        /\ (InsideGetNext(t) /\ ~InsideGetNext(t)') =>
              (thr[t].pc = "unlock" /\ rngMutex = t /\ rngMutex' = 0)

(* C20: every getNext call acquires the mutex, draws exactly one value and *)
(* releases the mutex before returning: with no thread inside getNext the  *)
(* mutex is free, and under fair scheduling every call, however many       *)
(* threads call at once, eventually returns.                               *)
C20_EveryCallReturns ==
    /\ [](C20_Free)
    /\ [][C20_Step]_vars
    /\ \A t \in Threads : InsideGetNext(t) ~> ~InsideGetNext(t)

(* C20 witness: one thread is about to return from getNext, still holding  *)
(* the mutex, while every other thread waits for it.                       *)
C20_Witness ==
    \E t \in Threads :
        /\ thr[t].pc = "unlock"
        /\ rngMutex = t
        /\ \A u \in Threads \ {t} : thr[u].pc = "lock"

=============================================================================
